---- MODULE Spec2Model ----
(***************************************************************************)
(* Model of the go-iec104 controlling-station client: the frame codec      *)
(* (apci.go, apdu.go, asdu*.go) and the session engine of client.go with   *)
(* its goroutines (writingToSocket, readingFromSocket, handlingData), the  *)
(* caller of Connect/Close and the application goroutines that submit      *)
(* frames.  Bytes are naturals 0..255, byte slices are sequences.          *)
(***************************************************************************)
EXTENDS Integers, Sequences, FiniteSets, TLC

\* ------------------------------------------------------------------ bounds
\* frames the peer delivers over the whole run
MaxRecv == 3
\* API calls each application goroutine makes
MaxOps == 1

\* ------------------------------------------------------- program constants
startByte == 104
ApduHeaderLen == 4
AsduHeaderLen == 6
IOALength == 3
Wrap15 == 32768
Uint16 == 65536

MSpNa1 == 1
CScNa1 == 45
CDcNa1 == 46
CIcNa1 == 100
CCiNa1 == 101

CotPerCyc == 1
CotSpont == 3
CotAct == 6
CotActCon == 7
CotDeactCon == 9
CotActTerm == 10
CotInrogen == 20

UFrameFunctionStartDTA == <<7, 0, 0, 0>>
UFrameFunctionStartDTC == <<11, 0, 0, 0>>
UFrameFunctionStopDTA == <<19, 0, 0, 0>>
UFrameFunctionStopDTC == <<35, 0, 0, 0>>
UFrameFunctionTestFA == <<67, 0, 0, 0>>
UFrameFunctionTestFC == <<131, 0, 0, 0>>

\* --------------------------------------------------------- byte primitives
RECURSIVE BitAnd(_, _)
BitAnd(a, b) ==
  IF a = 0 \/ b = 0 THEN 0
  ELSE (a % 2) * (b % 2) + 2 * BitAnd(a \div 2, b \div 2)

\* binary.LittleEndian.PutUint16
serializeLittleEndianUint16(i) == <<i % 256, (i \div 256) % 256>>

\* binary.BigEndian.PutUint16
serializeBigEndianUint16(i) == <<(i \div 256) % 256, i % 256>>

\* binary.LittleEndian.Uint16
parseLittleEndianUint16(x) == x[1] + 256 * x[2]

\* the slice data[from:to] of Go (0-based, to exclusive) of the sequence s
Slice(s, from, to) == SubSeq(s, from + 1, to)

\* ------------------------------------------------------------- APCI codec
\* IFrame.Data: the shifts are uint16 shifts
IFrameData(SendSN, RecvSN) ==
  serializeLittleEndianUint16((SendSN * 2) % Uint16)
    \o serializeLittleEndianUint16((RecvSN * 2) % Uint16)

\* SFrame.Data
SFrameData(RecvSN) == <<1, 0, BitAnd(RecvSN, 127), (RecvSN \div 128) % 256>>

\* APCI.parseIFrame: the shifts and the OR are byte operations
parseIFrame(cf) ==
  [ftype |-> "I",
   SendSN |-> (cf[1] \div 2) + ((cf[2] * 128) % 256),
   RecvSN |-> (cf[3] \div 2) + ((cf[4] * 128) % 256),
   Cmd |-> <<>>]

\* APCI.parseSFrame
parseSFrame(cf) ==
  [ftype |-> "S",
   SendSN |-> 0,
   RecvSN |-> (cf[3] \div 2) + ((cf[4] * 128) % 256),
   Cmd |-> <<>>]

\* APCI.parseUFrame
parseUFrame(cf) == [ftype |-> "U", SendSN |-> 0, RecvSN |-> 0, Cmd |-> cf]

\* APCI.Parse: the classification by the low bits of CF1
APCIParse(cf) ==
  IF cf[1] % 2 = 0 THEN parseIFrame(cf)
  ELSE IF cf[1] % 4 = 1 THEN parseSFrame(cf)
  ELSE parseUFrame(cf)

\* a frame whose length octet counts the start byte and itself as well
buildFrameTotalLength(data) == <<startByte, (Len(data) + 2) % 256>> \o data

\* Client.buildFrame: start byte, low octet of the length, the data
buildFrame(data) ==
  <<startByte, serializeBigEndianUint16(Len(data) % Uint16)[2]>> \o data

\* ------------------------------------------------------------- ASDU codec
\* InformationObject.serializeIOA: the low three octets of the uint32
serializeIOA(ioa) == <<ioa % 256, (ioa \div 256) % 256, (ioa \div 65536) % 256>>

\* the three octets read with the most significant octet first
parseIOABigEndian(d) == d[3] + 256 * d[2] + 65536 * d[1]

\* InformationObject.parseIOA
parseIOA(d) == d[1] + 256 * d[2] + 65536 * d[3]

\* InformationObject.Data for an object with one element
InformationObjectData(ioa, raw) == serializeIOA(ioa) \o raw

\* ASDU.Data, the second octet: SQ and the number of objects
AsduByte2(sq, nObjs) == IF sq THEN BitAnd(128, nObjs) ELSE nObjs

\* ASDU.Data, the third octet: T, PN and the cause of transmission
AsduByte3(t, pn, cot) ==
  IF t /\ pn THEN BitAnd(192, cot)
  ELSE IF t THEN BitAnd(128, cot)
  ELSE IF pn THEN BitAnd(64, cot)
  ELSE cot

\* ASDU.Data for an ASDU with one information object of one element
ASDUData(asdu) ==
  <<asdu.typeID, AsduByte2(asdu.sq, asdu.nObjs),
    AsduByte3(asdu.t, asdu.pn, asdu.cot), asdu.org>>
    \o serializeLittleEndianUint16(asdu.coa)
    \o InformationObjectData(asdu.ioa, asdu.raw)

\* ASDU.parseTypeID .. ASDU.parseCOA: the six octets of the data unit identifier
parseSQ(b) == BitAnd(b, 128) = 128
parseNOO(b) == BitAnd(b, 127)
parseT(b) == BitAnd(b, 128) = 128
parsePN(b) == BitAnd(b, 64) = 64
\* the cause read together with the P/N bit
parseCOTWithPN(b) == BitAnd(b, 127)
\* ASDU.parseCOT
parseCOT(b) == BitAnd(b, 63)
parseCOA(d) == d[1] + 256 * d[2]

\* the flags a freshly allocated ASDU carries before its elements are parsed
\* (cmdRsp "none" is the nil pointer; "nil" is a response whose err is nil)
NoFlags == [fault |-> FALSE, cmdRsp |-> "none", toBeHandled |-> FALSE,
            sendSFrame |-> FALSE, addrs |-> <<>>]

\* errors.go: the type assertions of IsErrSingleCmdTerm and IsErrDoubleCmdTerm
IsErrSingleCmdTerm(err) == err = "errSingleCmdTerm"
IsErrDoubleCmdTerm(err) == err = "errDoubleCmdTerm"

\* the error a CDcNa1 activation termination is given
DoubleTermErr == "errSingleCmdTerm"

\* ASDU.parseInformationElement on the element octets d at address addr, for
\* the type identifications the modelled peer sends; fl are the flags so far.
\* Reading the first octet of an empty element is an index-out-of-range fault.
parseInformationElement(typeID, cot, d, addr, fl) ==
  LET f0 == [fl EXCEPT !.addrs = Append(@, addr)] IN
  CASE typeID = MSpNa1 ->
         IF Len(d) < 1 THEN [f0 EXCEPT !.fault = TRUE]
         ELSE [f0 EXCEPT !.sendSFrame = @ \/ cot \in {CotPerCyc, CotSpont},
                         !.toBeHandled = TRUE]
    [] typeID = CScNa1 ->
         IF Len(d) < 1 THEN [f0 EXCEPT !.fault = TRUE]
         ELSE IF cot = CotActCon /\ d[1] \in {128, 129, 0, 1}
                THEN [f0 EXCEPT !.cmdRsp = "nil"]
         ELSE IF cot = CotActTerm
                THEN [f0 EXCEPT !.cmdRsp = "errSingleCmdTerm"]
         ELSE f0
    [] typeID = CDcNa1 ->
         IF Len(d) < 1 THEN [f0 EXCEPT !.fault = TRUE]
         ELSE IF cot = CotActCon /\ d[1] \in {129, 130, 1, 2}
                THEN [f0 EXCEPT !.cmdRsp = "nil"]
         ELSE IF cot = CotActTerm
                THEN [f0 EXCEPT !.cmdRsp = DoubleTermErr]
         ELSE f0
    [] typeID \in {CIcNa1, CCiNa1} ->
         IF cot = CotActTerm THEN [f0 EXCEPT !.sendSFrame = TRUE] ELSE f0
    [] OTHER -> f0

\* the loop of ASDU.parseInformationObjects for SQ=0, from object i on
RECURSIVE parseObjectsSQ0(_, _, _, _, _, _)
parseObjectsSQ0(typeID, cot, body, n, i, fl) ==
  LET size == Len(body) \div n IN
  IF i >= n \/ fl.fault THEN fl
  ELSE IF i * size + IOALength > Len(body) \/ size < IOALength
         THEN [fl EXCEPT !.fault = TRUE]
  ELSE parseObjectsSQ0(typeID, cot, body, n, i + 1,
         parseInformationElement(typeID, cot,
           Slice(body, i * size + IOALength, (i + 1) * size),
           parseIOA(Slice(body, i * size, i * size + IOALength)), fl))

\* the loop of ASDU.parseInformationObjects for SQ=1, from element i on
RECURSIVE parseObjectsSQ1(_, _, _, _, _, _)
parseObjectsSQ1(typeID, cot, body, n, i, fl) ==
  LET size == (Len(body) - IOALength) \div n IN
  IF i >= n \/ fl.fault THEN fl
  ELSE parseObjectsSQ1(typeID, cot, body, n, i + 1,
         parseInformationElement(typeID, cot,
           Slice(body, IOALength + i * size, IOALength + (i + 1) * size),
           parseIOA(Slice(body, 0, IOALength)) + i, fl))

\* ASDU.parseInformationObjects: a zero number of objects is a division by
\* zero, a body shorter than an address is a slice fault
parseInformationObjects(typeID, sq, nObjs, cot, body) ==
  IF sq
    THEN IF Len(body) < IOALength \/ nObjs = 0
           THEN [NoFlags EXCEPT !.fault = TRUE]
           ELSE parseObjectsSQ1(typeID, cot, body, nObjs, 0, NoFlags)
    ELSE IF nObjs = 0
           THEN [NoFlags EXCEPT !.fault = TRUE]
           ELSE parseObjectsSQ0(typeID, cot, body, nObjs, 0, NoFlags)

\* an APDU that carries no ASDU
NoAsdu == [typeID |-> 0, sq |-> FALSE, nObjs |-> 0, t |-> FALSE, pn |-> FALSE,
           cot |-> 0, org |-> 0, coa |-> 0, flags |-> NoFlags]

\* ASDU.Parse on at least six octets
ASDUParse(data) ==
  [typeID |-> data[1], sq |-> parseSQ(data[2]), nObjs |-> parseNOO(data[2]),
   t |-> parseT(data[3]), pn |-> parsePN(data[3]), cot |-> parseCOT(data[3]),
   org |-> data[4], coa |-> parseCOA(Slice(data, 4, AsduHeaderLen)),
   flags |-> parseInformationObjects(data[1], parseSQ(data[2]),
               parseNOO(data[2]), parseCOT(data[3]),
               Slice(data, AsduHeaderLen, Len(data)))]

\* APDU.Parse on the octets after the start byte and the length: err is "nil",
\* "error" (a returned error) or "panic" (a fault while parsing the objects)
APDUParse(data) ==
  IF Len(data) < ApduHeaderLen
    THEN [err |-> "error", frame |-> parseUFrame(<<0, 0, 0, 0>>), asdu |-> NoAsdu]
  ELSE LET frame == APCIParse(Slice(data, 0, ApduHeaderLen)) IN
    IF frame.ftype # "I"
      THEN [err |-> "nil", frame |-> frame, asdu |-> NoAsdu]
    ELSE IF Len(data) - ApduHeaderLen < AsduHeaderLen
      THEN [err |-> "error", frame |-> frame, asdu |-> NoAsdu]
    ELSE LET asdu == ASDUParse(Slice(data, ApduHeaderLen, Len(data))) IN
      [err |-> IF asdu.flags.fault THEN "panic" ELSE "nil",
       frame |-> frame, asdu |-> asdu]

\* --------------------------------------------------------- session engine
\* NewClient: the capacity of sendChan, the originator and the common address
SendChanCap == 1
ClientOrg == 0
ClientCoa == 1
\* the window k: the number of received I-frames after which an S-frame is due
WindowK == 8

\* connections the caller may open one after another on the same Client
MaxSess == 2
Sessions == 1..MaxSess

\* the application goroutines; a call is <<operation, IOA, close>>
Threads == {"a1", "a2"}
CmdOps == {"SC", "DC"}
GI == <<"GI", 0, FALSE>>
CI == <<"CI", 0, FALSE>>
TF == <<"TF", 0, FALSE>>
SC(ioa, close) == <<"SC", ioa, close>>
DC(ioa, close) == <<"DC", ioa, close>>

\* the APDUs the peer delivers: the octets after the start byte and the length
PeerIFrame(typeID, cot, raw) ==
  <<0, 0, 0, 0, typeID, 1, cot, 0, 1, 0, 1, 0, 0>> \o raw
PeerStartDTC == UFrameFunctionStartDTC
PeerStopDTC == UFrameFunctionStopDTC
PeerTestFA == UFrameFunctionTestFA
PeerScActCon == PeerIFrame(CScNa1, CotActCon, <<129>>)
PeerScActTerm == PeerIFrame(CScNa1, CotActTerm, <<1>>)
PeerDcActCon == PeerIFrame(CDcNa1, CotActCon, <<130>>)
PeerDcActTerm == PeerIFrame(CDcNa1, CotActTerm, <<2>>)
PeerMSpSpont == PeerIFrame(MSpNa1, CotSpont, <<1>>)
PeerMSpInrogen == PeerIFrame(MSpNa1, CotInrogen, <<1>>)
PeerGiActTerm == PeerIFrame(CIcNa1, CotActTerm, <<20>>)
\* a negative activation confirmation of a single command: P/N is set
PeerScActConNeg ==
  <<0, 0, 0, 0, CScNa1, 1, 64 + CotActCon, 0, 1, 0, 1, 0, 0, 129>>
\* a control field of three octets, and an I-frame whose ASDU has three octets
PeerShortApci == <<67, 0, 0>>
PeerShortAsdu == <<0, 0, 0, 0, MSpNa1, 1, CotSpont>>
\* a first octet that is not the start octet
BadStartByte == 105

\* the environments explored: the calls each application goroutine may make
\* and the APDUs the peer may send
EnvLife ==
  [calls |-> [t \in Threads |-> IF t = "a1" THEN {GI} ELSE {}],
   peer |-> {PeerStartDTC, PeerStopDTC, PeerTestFA, PeerMSpSpont},
   starts |-> {startByte}, recv |-> MaxRecv, faults |-> FALSE,
   handler |-> {"nil"}]
EnvCmd ==
  [calls |-> [t \in Threads |->
                IF t = "a1"
                  THEN {SC(1, TRUE), SC(66051, FALSE),
                        DC(1, FALSE), DC(66051, TRUE)}
                  ELSE {}],
   peer |-> {PeerStartDTC, PeerScActCon, PeerScActTerm, PeerDcActCon,
             PeerDcActTerm, PeerMSpSpont},
   starts |-> {startByte}, recv |-> MaxRecv, faults |-> FALSE,
   handler |-> {"nil"}]
EnvTwoCmd ==
  [calls |-> [t \in Threads |->
                IF t = "a1" THEN {SC(1, TRUE)} ELSE {DC(1, TRUE)}],
   peer |-> {PeerStartDTC, PeerScActCon, PeerDcActTerm},
   starts |-> {startByte}, recv |-> MaxRecv, faults |-> FALSE,
   handler |-> {"nil"}]
EnvSubmit ==
  [calls |-> [t \in Threads |-> IF t = "a1" THEN {GI, TF} ELSE {CI}],
   peer |-> {PeerStartDTC, PeerMSpSpont},
   starts |-> {startByte}, recv |-> MaxRecv, faults |-> FALSE,
   handler |-> {"nil"}]
\* the peer sends APDUs that do not decode and the connection may break
EnvFault ==
  [calls |-> [t \in Threads |-> IF t = "a1" THEN {TF} ELSE {}],
   peer |-> {PeerStartDTC, PeerShortApci, PeerShortAsdu},
   starts |-> {startByte, BadStartByte}, recv |-> MaxRecv, faults |-> TRUE,
   handler |-> {"nil"}]
\* the application closes the session and connects again while the peer
\* sends monitored data
EnvRedial ==
  [calls |-> [t \in Threads |-> {}],
   peer |-> {PeerStartDTC, PeerStopDTC, PeerMSpInrogen},
   starts |-> {startByte}, recv |-> MaxRecv + 1, faults |-> FALSE,
   handler |-> {"nil"}]
\* the peer refuses the single command of the application
EnvNegative ==
  [calls |-> [t \in Threads |-> IF t = "a1" THEN {SC(1, TRUE)} ELSE {}],
   peer |-> {PeerStartDTC, PeerScActConNeg},
   starts |-> {startByte}, recv |-> MaxRecv - 1, faults |-> FALSE,
   handler |-> {"nil"}]
\* the application sends no command and the peer sends the termination of a
\* command all the same
EnvUnsolicited ==
  [calls |-> [t \in Threads |-> {}],
   peer |-> {PeerStartDTC, PeerScActTerm},
   starts |-> {startByte}, recv |-> MaxRecv - 1, faults |-> FALSE,
   handler |-> {"nil"}]
Envs ==
  {EnvLife, EnvCmd, EnvTwoCmd, EnvSubmit, EnvFault, EnvRedial, EnvNegative,
   EnvUnsolicited}

\* a started session on which the peer answers a general interrogation with
\* more frames than the window
EnvWindow ==
  [calls |-> [t \in Threads |-> {}],
   peer |-> {PeerMSpInrogen, PeerGiActTerm},
   starts |-> {startByte}, recv |-> WindowK + 2, faults |-> FALSE,
   handler |-> {"nil"}]
\* a started session whose handlers may return an error or panic
EnvDispatch ==
  [calls |-> [t \in Threads |-> {}],
   peer |-> {PeerMSpInrogen, PeerMSpSpont},
   starts |-> {startByte}, recv |-> MaxRecv + 1, faults |-> FALSE,
   handler |-> {"nil", "error", "panic"}]
\* a started session on which the peer sends test frames between its data
EnvTest ==
  [calls |-> [t \in Threads |-> {}],
   peer |-> {PeerTestFA, PeerMSpSpont},
   starts |-> {startByte}, recv |-> MaxRecv + 2, faults |-> FALSE,
   handler |-> {"nil"}]
\* a started session on which the peer sends TESTFR con frames
EnvTestCon ==
  [calls |-> [t \in Threads |-> {}],
   peer |-> {UFrameFunctionTestFC},
   starts |-> {startByte}, recv |-> MaxRecv, faults |-> FALSE,
   handler |-> {"nil"}]
LinkEnvs == {EnvWindow, EnvDispatch, EnvTest, EnvTestCon}

VARIABLES
  codec,      \* the codec function applied, its input octets and its result
  env,        \* what the application goroutines call and what the peer sends
  sock,       \* per connection: "none", "open", "failed" (reads and writes
              \* return an error) or "closed" (the client closed it)
  conn,       \* c.conn: 0 is nil, s is the connection of session s
  ssn, rsn,   \* c.ssn, c.rsn (uint16)
  sendChan,   \* c.sendChan: the frames buffered for the writer
  cancelled,  \* per session: the context of the session is cancelled
  mpc,        \* position of the goroutine that calls Connect and Close
  connectRet, \* what the last call of Connect returned
  wpc,        \* per session: position of writingToSocket
  rpc,        \* per session: position of readingFromSocket
  rapdu,      \* per session: the APDU the reader is processing
  rout,       \* per session: the frame the reader has built to send
  dpc,        \* per session: position of handlingData
  dapdu,      \* per session: the APDU handlingData is handling
  app,        \* per application goroutine: its call in progress
  wire,       \* per connection: the frames written to the socket
  nrecv,      \* frames the peer has delivered
  rxI,        \* per session: I-frames its reader has read
  rxU,        \* per session: the U-frame functions its reader has read
  subs,       \* application goroutines that submitted an I-frame this session
  nsub,       \* I-frames submitted this session
  handled     \* the calls of handlers by handleData, in order: the type
              \* identification, the arrival number and the reader of the
              \* APDU, the handler and how it ended

vars == <<codec, env, sock, conn, ssn, rsn, sendChan, cancelled, mpc, connectRet, wpc, rpc,
          rapdu, rout, dpc, dapdu, app, wire, nrecv, rxI, rxU, subs, nsub, handled>>

\* no codec function has been applied and none is to be
NoCodec == [fn |-> "none", kind |-> "none", in |-> <<>>, out |-> <<>>]

NoApdu ==
  [err |-> "nil", frame |-> parseUFrame(<<0, 0, 0, 0>>), asdu |-> NoAsdu,
   n |-> 0, s |-> 0]

\* the APDU a, read as the n-th APDU of the peer by the reader of session s
Arrived(a, n, s) ==
  [err |-> a.err, frame |-> a.frame, asdu |-> a.asdu, n |-> n, s |-> s]

IdleApp ==
  [pc |-> "idle", op |-> "none", ioa |-> 0, close |-> FALSE, step |-> "none",
   SendSN |-> 0, RecvSN |-> 0, tmp |-> 0, frame |-> <<>>, ops |-> 0,
   ret |-> "none", trace |-> <<>>, frames |-> <<>>, rspFrom |-> <<>>,
   ssn0 |-> 0, nsub0 |-> 0, sentAt |-> 0, rspAt |-> 0, rspPN |-> FALSE]

\* Client.IsConnected: return true
IsConnected == TRUE

\* a goroutine of the process has panicked without recover: the process is gone
Crashed == \E s \in Sessions : rpc[s] = "panic"

\* NewClient
Init ==
  /\ codec = NoCodec
  /\ env \in Envs
  /\ sock = [s \in Sessions |-> "none"]
  /\ conn = 0
  /\ ssn = 0
  /\ rsn = 0
  /\ sendChan = <<>>
  /\ cancelled = [s \in Sessions |-> FALSE]
  /\ mpc = "idle"
  /\ connectRet = "none"
  /\ wpc = [s \in Sessions |-> "none"]
  /\ rpc = [s \in Sessions |-> "none"]
  /\ rapdu = [s \in Sessions |-> NoApdu]
  /\ rout = [s \in Sessions |-> <<>>]
  /\ dpc = [s \in Sessions |-> "none"]
  /\ dapdu = [s \in Sessions |-> NoApdu]
  /\ app = [t \in Threads |-> IdleApp]
  /\ wire = [s \in Sessions |-> <<>>]
  /\ nrecv = 0
  /\ rxI = [s \in Sessions |-> 0]
  /\ rxU = [s \in Sessions |-> <<>>]
  /\ subs = {}
  /\ nsub = 0
  /\ handled = <<>>

\* ---------------------------------------------- the caller of Connect/Close
\* Client.dial returns an error: Connect returns it and nothing else happens
ConnectDialFails ==
  /\ ~Crashed
  /\ mpc \in {"idle", "closed"}
  /\ conn < MaxSess
  /\ connectRet' = "err"
  /\ UNCHANGED <<codec, env, sock, conn, ssn, rsn, sendChan, cancelled, mpc, wpc, rpc, rapdu, rout,
                 dpc, dapdu, app, wire, nrecv, rxI, rxU, subs, nsub, handled>>

\* Client.Connect up to the call of the on-connect hook: the dial succeeds,
\* both sequence numbers are reset and the three goroutines are started
Connect ==
  /\ ~Crashed
  /\ mpc \in {"idle", "closed"}
  /\ conn < MaxSess
  /\ conn' = conn + 1
  /\ sock' = [sock EXCEPT ![conn + 1] = "open"]
  /\ ssn' = 0
  /\ rsn' = 0
  /\ wpc' = [wpc EXCEPT ![conn + 1] = "run"]
  /\ rpc' = [rpc EXCEPT ![conn + 1] = "select"]
  /\ dpc' = [dpc EXCEPT ![conn + 1] = "run"]
  /\ mpc' = "onConnect"
  /\ connectRet' = "none"
  /\ subs' = {}
  /\ nsub' = 0
  /\ UNCHANGED <<codec, env, sendChan, cancelled, rapdu, rout, dapdu, app, wire, nrecv, rxI,
                 rxU, handled>>

\* the default onConnectHandler: sendUFrame(UFrameFunctionStartDTA)
OnConnectSend ==
  /\ ~Crashed
  /\ mpc = "onConnect"
  /\ Len(sendChan) < SendChanCap
  /\ sendChan' = Append(sendChan, buildFrame(UFrameFunctionStartDTA))
  /\ mpc' = "connWait"
  /\ UNCHANGED <<codec, env, sock, conn, ssn, rsn, cancelled, connectRet, wpc, rpc, rapdu, rout, dpc,
                 dapdu, app, wire, nrecv, rxI, rxU, subs, nsub, handled>>

\* which received U-frames the reader passes to recvChan
PassedToRecvChan(cmd) ==
  cmd[1] \in {UFrameFunctionStartDTC[1], UFrameFunctionStopDTC[1]}

\* the hooks' <-c.recvChan meets the reader's c.recvChan <- apdu; after the
\* on-connect hook Connect returns nil, after the on-disconnect hook Close
\* goes on to cancel
RecvChanHandoff(s) ==
  /\ ~Crashed
  /\ rpc[s] = "recvChan"
  /\ mpc \in {"connWait", "closeWait"}
  /\ rpc' = [rpc EXCEPT ![s] = "select"]
  /\ mpc' = IF mpc = "connWait" THEN "started" ELSE "closeCancel"
  /\ connectRet' = IF mpc = "connWait" THEN "nil" ELSE connectRet
  /\ UNCHANGED <<codec, env, sock, conn, ssn, rsn, sendChan, cancelled, wpc, rapdu, rout, dpc, dapdu,
                 app, wire, nrecv, rxI, rxU, subs, nsub, handled>>

\* Client.Close with the default onDisconnectHandler, called while a session
\* is up and no application call is in progress, or once more after a Close:
\* sendUFrame(UFrameFunctionStopDTA)
Close ==
  /\ ~Crashed
  /\ mpc \in {"started", "closed"}
  /\ \A t \in Threads : app[t].pc = "idle"
  /\ Len(sendChan) < SendChanCap
  /\ sendChan' = Append(sendChan, buildFrame(UFrameFunctionStopDTA))
  /\ mpc' = "closeWait"
  /\ UNCHANGED <<codec, env, sock, conn, ssn, rsn, cancelled, connectRet, wpc, rpc, rapdu, rout, dpc,
                 dapdu, app, wire, nrecv, rxI, rxU, subs, nsub, handled>>

\* Client.Close after the hook: c.cancel() of the latest session
CloseCancel ==
  /\ ~Crashed
  /\ mpc = "closeCancel"
  /\ cancelled' = [cancelled EXCEPT ![conn] = TRUE]
  /\ mpc' = "closed"
  /\ UNCHANGED <<codec, env, sock, conn, ssn, rsn, sendChan, connectRet, wpc, rpc, rapdu, rout, dpc,
                 dapdu, app, wire, nrecv, rxI, rxU, subs, nsub, handled>>

\* the connection of session s breaks: from now on conn.Read and conn.Write
\* return an error
SocketFails(s) ==
  /\ ~Crashed
  /\ env.faults
  /\ sock[s] = "open"
  /\ sock' = [sock EXCEPT ![s] = "failed"]
  /\ UNCHANGED <<codec, env, conn, ssn, rsn, sendChan, cancelled, mpc, connectRet, wpc,
                 rpc, rapdu, rout, dpc, dapdu, app, wire, nrecv, rxI, rxU, subs,
                 nsub, handled>>

\* ------------------------------------------------------- writingToSocket
\* the select takes <-ctx.Done()
WriterExit(s) ==
  /\ ~Crashed
  /\ wpc[s] = "run"
  /\ cancelled[s]
  /\ wpc' = [wpc EXCEPT ![s] = "exit"]
  /\ UNCHANGED <<codec, env, sock, conn, ssn, rsn, sendChan, cancelled, mpc, connectRet, rpc,
                 rapdu, rout, dpc, dapdu, app, wire, nrecv, rxI, rxU, subs, nsub,
                 handled>>

\* the select takes data := <-c.sendChan and c.conn.Write(data) writes it
WriterWrite(s) ==
  /\ ~Crashed
  /\ wpc[s] = "run"
  /\ sendChan # <<>>
  /\ sock[conn] = "open"
  /\ sendChan' = Tail(sendChan)
  /\ wire' = [wire EXCEPT ![conn] = Append(@, Head(sendChan))]
  /\ UNCHANGED <<codec, env, sock, conn, ssn, rsn, cancelled, mpc, connectRet, wpc, rpc, rapdu, rout,
                 dpc, dapdu, app, nrecv, rxI, rxU, subs, nsub, handled>>

\* the select takes data := <-c.sendChan and c.conn.Write(data) returns an
\* error: the error is logged, the frame is lost and the loop goes on
WriterWriteFails(s) ==
  /\ ~Crashed
  /\ wpc[s] = "run"
  /\ sendChan # <<>>
  /\ sock[conn] = "failed"
  /\ sendChan' = Tail(sendChan)
  /\ UNCHANGED <<codec, env, sock, conn, ssn, rsn, cancelled, mpc, connectRet, wpc, rpc,
                 rapdu, rout, dpc, dapdu, app, wire, nrecv, rxI, rxU, subs, nsub,
                 handled>>

\* ------------------------------------------------------ readingFromSocket
\* a reader that leaves a TESTFR unanswered
ReaderAfterNoTestReply(a, done) ==
  CASE a.frame.ftype = "I" ->
         IF done < 1 /\ a.asdu.flags.cmdRsp # "none" THEN "cmdRsp"
         ELSE IF done < 2 /\ a.asdu.flags.toBeHandled THEN "data"
         ELSE IF done < 3 /\ a.asdu.flags.sendSFrame THEN "sframe"
         ELSE IF done < 4 THEN "incRsn"
         ELSE "select"
    [] a.frame.ftype = "U" ->
         IF done < 1 /\ PassedToRecvChan(a.frame.Cmd) THEN "recvChan"
         ELSE "select"
    [] OTHER -> "select"

\* where the reader goes after stage `done` of processing the APDU a: for an
\* I-frame readApduBody in turn hands over the command response (1), hands
\* the APDU to handlingData (2), calls SendTestFrame (3) and increments rsn
\* (4); for a U-frame the switch of readingFromSocket passes a STARTDT or
\* STOPDT confirmation to recvChan and answers a TESTFR with TESTFR con
ReaderAfter(a, done) ==
  CASE a.frame.ftype = "I" ->
         IF done < 1 /\ a.asdu.flags.cmdRsp # "none" THEN "cmdRsp"
         ELSE IF done < 2 /\ a.asdu.flags.toBeHandled THEN "data"
         ELSE IF done < 3 /\ a.asdu.flags.sendSFrame THEN "sframe"
         ELSE IF done < 4 THEN "incRsn"
         ELSE "select"
    [] a.frame.ftype = "U" ->
         IF done < 1 /\ PassedToRecvChan(a.frame.Cmd) THEN "recvChan"
         ELSE IF done < 1 /\ a.frame.Cmd[1] \in
                   {UFrameFunctionTestFA[1], UFrameFunctionTestFC[1]}
           THEN "testfc"
         ELSE "select"
    [] OTHER -> "select"

\* the select at the top of the loop: <-ctx.Done() when the context is
\* cancelled, else the default branch, which blocks in the socket read
ReaderSelect(s) ==
  /\ ~Crashed
  /\ rpc[s] = "select"
  /\ rpc' = [rpc EXCEPT ![s] = IF cancelled[s] THEN "exit" ELSE "read"]
  /\ UNCHANGED <<codec, env, sock, conn, ssn, rsn, sendChan, cancelled, mpc, connectRet, wpc,
                 rapdu, rout, dpc, dapdu, app, wire, nrecv, rxI, rxU, subs,
                 nsub, handled>>

\* Client.readApduHeader on the two octets buf: the error it returns
readApduHeader(buf) ==
  IF Len(buf) # 2 THEN "error"
  ELSE IF buf[1] # startByte THEN "error"
  ELSE "nil"

\* readFromSocket on the octets the peer sent, the start octet b, the length
\* and the APDU f; the reader of session s reads c.conn, which is the
\* connection of its session or, once Connect has stored a new one, the
\* latest; an error of readApduHeader or of APDU.Parse makes
\* readingFromSocket panic
ReaderRead(s, b, f) ==
  /\ ~Crashed
  /\ rpc[s] = "read"
  /\ \E c \in {s, conn} : sock[c] = "open"
  /\ nrecv < env.recv
  /\ nrecv' = nrecv + 1
  /\ LET herr == readApduHeader(<<b, Len(f)>>)
         a == IF herr # "nil" THEN [NoApdu EXCEPT !.err = herr]
              ELSE APDUParse(f) IN
       /\ rapdu' = [rapdu EXCEPT ![s] = Arrived(a, nrecv + 1, s)]
       /\ rpc' = [rpc EXCEPT ![s] =
                    IF a.err # "nil" THEN "panic" ELSE ReaderAfter(a, 0)]
       /\ rxI' = [rxI EXCEPT ![s] =
                    IF a.err = "nil" /\ a.frame.ftype = "I" THEN @ + 1 ELSE @]
       /\ rxU' = [rxU EXCEPT ![s] =
                    IF a.err = "nil" /\ a.frame.ftype = "U"
                      THEN Append(@, a.frame.Cmd[1]) ELSE @]
  /\ UNCHANGED <<codec, env, sock, conn, ssn, rsn, sendChan, cancelled, mpc, connectRet, wpc,
                 rout, dpc, dapdu, app, wire, subs, nsub, handled>>

\* c.conn.Read returns an error: readFromSocket returns it and
\* readingFromSocket panics
ReaderReadFails(s) ==
  /\ ~Crashed
  /\ rpc[s] = "read"
  /\ \E c \in {s, conn} : sock[c] = "failed"
  /\ rapdu' = [rapdu EXCEPT ![s] = [NoApdu EXCEPT !.err = "transport"]]
  /\ rpc' = [rpc EXCEPT ![s] = "panic"]
  /\ UNCHANGED <<codec, env, sock, conn, ssn, rsn, sendChan, cancelled, mpc, connectRet,
                 wpc, rout, dpc, dapdu, app, wire, nrecv, rxI, rxU, subs, nsub,
                 handled>>

\* Client.SendTestFrame called by the reader: the S-frame is built with the
\* value c.rsn has now
ReaderSFrame(s) ==
  /\ ~Crashed
  /\ rpc[s] = "sframe"
  /\ rout' = [rout EXCEPT ![s] = buildFrame(SFrameData(rsn))]
  /\ rpc' = [rpc EXCEPT ![s] = "sframeSend"]
  /\ UNCHANGED <<codec, env, sock, conn, ssn, rsn, sendChan, cancelled, mpc, connectRet, wpc,
                 rapdu, dpc, dapdu, app, wire, nrecv, rxI, rxU, subs, nsub,
                 handled>>

\* sendSFrame: c.sendChan <- frame
ReaderSFrameSend(s) ==
  /\ ~Crashed
  /\ rpc[s] = "sframeSend"
  /\ Len(sendChan) < SendChanCap
  /\ sendChan' = Append(sendChan, rout[s])
  /\ rpc' = [rpc EXCEPT ![s] = ReaderAfter(rapdu[s], 3)]
  /\ UNCHANGED <<codec, env, sock, conn, ssn, rsn, cancelled, mpc, connectRet, wpc, rapdu, rout,
                 dpc, dapdu, app, wire, nrecv, rxI, rxU, subs, nsub, handled>>

\* Client.incRsn, c.rsn++
ReaderIncRsn(s) ==
  /\ ~Crashed
  /\ rpc[s] = "incRsn"
  /\ rsn' = (rsn + 1) % Uint16
  /\ rpc' = [rpc EXCEPT ![s] = "incRsnChk"]
  /\ UNCHANGED <<codec, env, sock, conn, ssn, sendChan, cancelled, mpc, connectRet, wpc, rapdu,
                 rout, dpc, dapdu, app, wire, nrecv, rxI, rxU, subs, nsub,
                 handled>>

\* Client.incRsn, if c.rsn == 1<<15 { c.rsn = 0 }
ReaderIncRsnChk(s) ==
  /\ ~Crashed
  /\ rpc[s] = "incRsnChk"
  /\ rsn' = IF rsn = Wrap15 THEN 0 ELSE rsn
  /\ rpc' = [rpc EXCEPT ![s] = ReaderAfter(rapdu[s], 4)]
  /\ UNCHANGED <<codec, env, sock, conn, ssn, sendChan, cancelled, mpc, connectRet, wpc, rapdu,
                 rout, dpc, dapdu, app, wire, nrecv, rxI, rxU, subs, nsub,
                 handled>>

\* c.sendUFrame(UFrameFunctionTestFC) after a TESTFR act or con
ReaderTestFC(s) ==
  /\ ~Crashed
  /\ rpc[s] = "testfc"
  /\ Len(sendChan) < SendChanCap
  /\ sendChan' = Append(sendChan, buildFrame(UFrameFunctionTestFC))
  /\ rpc' = [rpc EXCEPT ![s] = "select"]
  /\ UNCHANGED <<codec, env, sock, conn, ssn, rsn, cancelled, mpc, connectRet, wpc, rapdu, rout,
                 dpc, dapdu, app, wire, nrecv, rxI, rxU, subs, nsub, handled>>

\* ------------------------------------------------------------ handlingData
\* the select takes <-ctx.Done()
DispatcherExit(d) ==
  /\ ~Crashed
  /\ dpc[d] = "run"
  /\ cancelled[d]
  /\ dpc' = [dpc EXCEPT ![d] = "exit"]
  /\ UNCHANGED <<codec, env, sock, conn, ssn, rsn, sendChan, cancelled, mpc, connectRet, wpc,
                 rpc, rapdu, rout, dapdu, app, wire, nrecv, rxI, rxU, subs,
                 nsub, handled>>

\* the reader's c.dataChan <- apdu meets the select's apdu := <-c.dataChan
DataChanHandoff(s, d) ==
  /\ ~Crashed
  /\ rpc[s] = "data"
  /\ dpc[d] = "run"
  /\ dapdu' = [dapdu EXCEPT ![d] = rapdu[s]]
  /\ dpc' = [dpc EXCEPT ![d] = "handle"]
  /\ rpc' = [rpc EXCEPT ![s] = ReaderAfter(rapdu[s], 2)]
  /\ UNCHANGED <<codec, env, sock, conn, ssn, rsn, sendChan, cancelled, mpc, connectRet, wpc,
                 rapdu, rout, app, wire, nrecv, rxI, rxU, subs, nsub, handled>>

\* type identifications of commands that handleData names
CRdNa1 == 102
CCsNa1 == 103
CTsNb1 == 104
CRpNc1 == 105
CCdNa1 == 106
CTsTa1 == 107

\* handleData: the method of ClientHandler called for a type identification
HandlerFor(typeID) ==
  CASE typeID = CIcNa1 -> "GeneralInterrogationHandler"
    [] typeID = CCiNa1 -> "CounterInterrogationHandler"
    [] typeID = CRdNa1 -> "ReadCommandHandler"
    [] typeID = CCsNa1 -> "ClockSynchronizationHandler"
    [] typeID \in {CTsNb1, CTsTa1} -> "TestCommandHandler"
    [] typeID = CRpNc1 -> "ResetProcessCommandHandler"
    [] typeID = CCdNa1 -> "DelayAcquisitionCommandHandler"
    [] OTHER -> "APDUHandler"

\* a dispatcher that a panic of the handler stops
AfterHandlerNoRecover(out) == IF out = "panic" THEN "stopped" ELSE "run"

\* handlingData after handleData returned nil or an error, or recovered from
\* a panic of the handler: the loop goes on
AfterHandler(out) == "run"

\* handleData calls the handler of the APDU's type identification; the
\* handler returns nil or an error, or panics
DispatcherHandle(d) ==
  /\ ~Crashed
  /\ dpc[d] = "handle"
  /\ \E out \in env.handler :
       /\ handled' = Append(handled,
                        [typeID |-> dapdu[d].asdu.typeID, n |-> dapdu[d].n,
                         s |-> dapdu[d].s,
                         handler |-> HandlerFor(dapdu[d].asdu.typeID),
                         out |-> out])
       /\ dpc' = [dpc EXCEPT ![d] = AfterHandler(out)]
  /\ UNCHANGED <<codec, env, sock, conn, ssn, rsn, sendChan, cancelled, mpc, connectRet, wpc,
                 rpc, rapdu, rout, dapdu, app, wire, nrecv, rxI, rxU, subs,
                 nsub>>

\* ------------------------------------------------ application goroutines
\* a single command that always commands "open"
SCOAlwaysOpen(close, step) == IF step = "select" THEN 128 ELSE 0

\* SendSingleCommand: the command octet of the select and of the execute step
SCO(close, step) ==
  IF step = "select" THEN (IF close THEN 129 ELSE 128)
  ELSE (IF close THEN 1 ELSE 0)

\* SendDoubleCommand: the command octet of the select and of the execute step
DCO(close, step) ==
  IF step = "select" THEN (IF close THEN 130 ELSE 129)
  ELSE (IF close THEN 2 ELSE 1)

\* the ASDU the four sending calls hand to SendIFrame, which sets org and coa
OpASDU(op, ioa, close, step) ==
  [typeID |-> CASE op = "GI" -> CIcNa1 [] op = "CI" -> CCiNa1
                [] op = "SC" -> CScNa1 [] OTHER -> CDcNa1,
   sq |-> FALSE, nObjs |-> 1, t |-> FALSE, pn |-> FALSE, cot |-> CotAct,
   org |-> ClientOrg, coa |-> ClientCoa,
   ioa |-> ioa,
   raw |-> CASE op = "GI" -> <<20>> [] op = "CI" -> <<69>>
             [] op = "SC" -> <<SCO(close, step)>>
             [] OTHER -> <<DCO(close, step)>>]

\* a call of SendGeneralInterrogation, SendCounterInterrogation,
\* SendSingleCommand or SendDoubleCommand up to SendIFrame's reading of c.ssn
\* and c.rsn into the APCI, or of SendTestFrame up to its reading of c.rsn
AppCall(t, op, ioa, close) ==
  /\ ~Crashed
  /\ <<op, ioa, close>> \in env.calls[t]
  /\ mpc = "started"
  /\ app[t].pc = "idle"
  /\ app[t].ops < MaxOps
  /\ app' = [app EXCEPT ![t] =
       [IdleApp EXCEPT
          !.pc = IF op = "TF" THEN "send" ELSE "incSsn",
          !.op = op, !.ioa = ioa, !.close = close, !.step = "select",
          !.SendSN = ssn, !.RecvSN = rsn,
          !.frame = IF op = "TF" THEN buildFrame(SFrameData(rsn)) ELSE <<>>,
          !.ops = app[t].ops + 1,
          !.ssn0 = ssn, !.nsub0 = nsub]]
  /\ subs' = IF op = "TF" THEN subs ELSE subs \cup {t}
  /\ nsub' = IF op = "TF" THEN nsub ELSE nsub + 1
  /\ UNCHANGED <<codec, env, sock, conn, ssn, rsn, sendChan, cancelled, mpc, connectRet, wpc,
                 rpc, rapdu, rout, dpc, dapdu, wire, nrecv, rxI, rxU, handled>>

\* SendIFrame for the execute step: c.ssn and c.rsn are read into the APCI
AppApci(t) ==
  /\ ~Crashed
  /\ app[t].pc = "apci"
  /\ app' = [app EXCEPT ![t].SendSN = ssn, ![t].RecvSN = rsn,
                        ![t].pc = "incSsn"]
  /\ nsub' = nsub + 1
  /\ UNCHANGED <<codec, env, sock, conn, ssn, rsn, sendChan, cancelled, mpc, connectRet, wpc,
                 rpc, rapdu, rout, dpc, dapdu, wire, nrecv, rxI, rxU, subs,
                 handled>>

\* Client.incSsn, c.ssn++: the load
AppIncLoad(t) ==
  /\ ~Crashed
  /\ app[t].pc = "incSsn"
  /\ app' = [app EXCEPT ![t].tmp = ssn, ![t].pc = "incStore"]
  /\ UNCHANGED <<codec, env, sock, conn, ssn, rsn, sendChan, cancelled, mpc, connectRet, wpc,
                 rpc, rapdu, rout, dpc, dapdu, wire, nrecv, rxI, rxU, subs,
                 nsub, handled>>

\* Client.incSsn, c.ssn++: the store
AppIncStore(t) ==
  /\ ~Crashed
  /\ app[t].pc = "incStore"
  /\ ssn' = (app[t].tmp + 1) % Uint16
  /\ app' = [app EXCEPT ![t].pc = "incChk"]
  /\ UNCHANGED <<codec, env, sock, conn, rsn, sendChan, cancelled, mpc, connectRet, wpc, rpc,
                 rapdu, rout, dpc, dapdu, wire, nrecv, rxI, rxU, subs, nsub,
                 handled>>

\* the counter Client.incSsn compares with 1<<15
IncSsnTested == rsn

\* Client.incSsn, if c.rsn == 1<<15 { c.ssn = 0 }, and the frame sendIFrame
\* builds from the APCI and the ASDU
AppIncChk(t) ==
  /\ ~Crashed
  /\ app[t].pc = "incChk"
  /\ ssn' = IF IncSsnTested = Wrap15 THEN 0 ELSE ssn
  /\ app' = [app EXCEPT
       ![t].frame = buildFrame(
          IFrameData(app[t].SendSN, app[t].RecvSN)
            \o ASDUData(OpASDU(app[t].op, app[t].ioa, app[t].close,
                               app[t].step))),
       ![t].pc = "send"]
  /\ UNCHANGED <<codec, env, sock, conn, rsn, sendChan, cancelled, mpc, connectRet, wpc, rpc,
                 rapdu, rout, dpc, dapdu, wire, nrecv, rxI, rxU, subs, nsub,
                 handled>>

\* a call that never waits for a command response
AfterSendNoWait(op) == "idle"

\* where a call goes once its frame is in sendChan: the command calls wait
\* for a command response, the others return
AfterSend(op) == IF op \in CmdOps THEN "await" ELSE "idle"

\* sendIFrame / sendSFrame: c.sendChan <- frame
AppSend(t) ==
  /\ ~Crashed
  /\ app[t].pc = "send"
  /\ Len(sendChan) < SendChanCap
  /\ sendChan' = Append(sendChan, app[t].frame)
  /\ app' = [app EXCEPT
       ![t].pc = AfterSend(app[t].op),
       ![t].ret = IF AfterSend(app[t].op) = "idle" THEN "nil" ELSE @,
       ![t].frames = Append(@, app[t].frame),
       ![t].trace = Append(@, app[t].step),
       ![t].sentAt = IF app[t].op \in CmdOps THEN nrecv ELSE 0,
       ![t].rspAt = 0, ![t].rspPN = FALSE]
  /\ UNCHANGED <<codec, env, sock, conn, ssn, rsn, cancelled, mpc, connectRet, wpc, rpc, rapdu,
                 rout, dpc, dapdu, wire, nrecv, rxI, rxU, subs, nsub, handled>>

\* a command call that ignores the error of a command response
CallAfterRspIgnoringErr(step, err) == IF step = "select" THEN "apci" ELSE "idle"

\* where a command call goes after rsp := <-c.cmdRspChan: if rsp.err != nil it
\* returns the error, else the select step goes on to SendIFrame of the
\* execute step and the execute step returns nil
CallAfterRsp(step, err) ==
  IF err # "nil" THEN "idle"
  ELSE IF step = "select" THEN "apci" ELSE "idle"

\* the reader's c.cmdRspChan <- apdu.ASDU.cmdRsp meets the rsp := <-c.cmdRspChan
\* of a command call
CmdRspHandoff(s, t) ==
  /\ ~Crashed
  /\ rpc[s] = "cmdRsp"
  /\ app[t].pc = "await"
  /\ LET err == rapdu[s].asdu.flags.cmdRsp
         to == CallAfterRsp(app[t].step, err) IN
       app' = [app EXCEPT
         ![t].pc = to,
         ![t].step = IF to = "apci" THEN "execute" ELSE @,
         ![t].ret = IF to = "apci" THEN @ ELSE err,
         ![t].trace = Append(@, "rsp"),
         ![t].rspFrom = <<rapdu[s].asdu.typeID, rapdu[s].asdu.cot>>,
         ![t].rspAt = rapdu[s].n, ![t].rspPN = rapdu[s].asdu.pn]
  /\ rpc' = [rpc EXCEPT ![s] = ReaderAfter(rapdu[s], 1)]
  /\ UNCHANGED <<codec, env, sock, conn, ssn, rsn, sendChan, cancelled, mpc, connectRet, wpc,
                 rapdu, rout, dpc, dapdu, wire, nrecv, rxI, rxU, subs, nsub,
                 handled>>

\* ---------------------------------------------------------- specification
Next ==
  \/ ConnectDialFails
  \/ Connect
  \/ OnConnectSend
  \/ Close
  \/ CloseCancel
  \/ \E s \in Sessions : RecvChanHandoff(s)
  \/ \E s \in Sessions : WriterExit(s)
  \/ \E s \in Sessions : WriterWrite(s)
  \/ \E s \in Sessions : WriterWriteFails(s)
  \/ \E s \in Sessions : SocketFails(s)
  \/ \E s \in Sessions : ReaderSelect(s)
  \/ \E s \in Sessions : \E b \in env.starts, f \in env.peer : ReaderRead(s, b, f)
  \/ \E s \in Sessions : ReaderReadFails(s)
  \/ \E s \in Sessions : ReaderSFrame(s)
  \/ \E s \in Sessions : ReaderSFrameSend(s)
  \/ \E s \in Sessions : ReaderIncRsn(s)
  \/ \E s \in Sessions : ReaderIncRsnChk(s)
  \/ \E s \in Sessions : ReaderTestFC(s)
  \/ \E d \in Sessions : DispatcherExit(d)
  \/ \E s \in Sessions, d \in Sessions : DataChanHandoff(s, d)
  \/ \E d \in Sessions : DispatcherHandle(d)
  \/ \E t \in Threads : \E c \in env.calls[t] : AppCall(t, c[1], c[2], c[3])
  \/ \E t \in Threads : AppApci(t)
  \/ \E t \in Threads : AppIncLoad(t)
  \/ \E t \in Threads : AppIncStore(t)
  \/ \E t \in Threads : AppIncChk(t)
  \/ \E t \in Threads : AppSend(t)
  \/ \E s \in Sessions, t \in Threads : CmdRspHandoff(s, t)

Spec == Init /\ [][Next]_vars

\* a started session whose counters are about to wrap: <<c.ssn, c.rsn>> after
\* that many I-frames were sent and received; the histories restart here
WrapStarts == {<<32766, 32767>>, <<32767, 32766>>}

InitWrap ==
  /\ codec = NoCodec
  /\ env \in Envs
  /\ sock = [s \in Sessions |-> IF s = 1 THEN "open" ELSE "none"]
  /\ conn = 1
  /\ \E w \in WrapStarts : ssn = w[1] /\ rsn = w[2]
  /\ sendChan = <<>>
  /\ cancelled = [s \in Sessions |-> FALSE]
  /\ mpc = "started"
  /\ connectRet = "nil"
  /\ wpc = [s \in Sessions |-> IF s = 1 THEN "run" ELSE "none"]
  /\ rpc = [s \in Sessions |-> IF s = 1 THEN "select" ELSE "none"]
  /\ rapdu = [s \in Sessions |-> NoApdu]
  /\ rout = [s \in Sessions |-> <<>>]
  /\ dpc = [s \in Sessions |-> IF s = 1 THEN "run" ELSE "none"]
  /\ dapdu = [s \in Sessions |-> NoApdu]
  /\ app = [t \in Threads |-> IdleApp]
  /\ wire = [s \in Sessions |->
              IF s = 1 THEN <<buildFrame(UFrameFunctionStartDTA)>> ELSE <<>>]
  /\ nrecv = 1
  /\ rxI = [s \in Sessions |-> 0]
  /\ rxU = [s \in Sessions |->
             IF s = 1 THEN <<UFrameFunctionStartDTC[1]>> ELSE <<>>]
  /\ subs = {}
  /\ nsub = 0
  /\ handled = <<>>

SpecWrap == InitWrap /\ [][Next]_vars

\* a started session: Connect has returned nil after the STARTDT con
InitLink ==
  /\ codec = NoCodec
  /\ env \in LinkEnvs
  /\ sock = [s \in Sessions |-> IF s = 1 THEN "open" ELSE "none"]
  /\ conn = 1
  /\ ssn = 0
  /\ rsn = 0
  /\ sendChan = <<>>
  /\ cancelled = [s \in Sessions |-> FALSE]
  /\ mpc = "started"
  /\ connectRet = "nil"
  /\ wpc = [s \in Sessions |-> IF s = 1 THEN "run" ELSE "none"]
  /\ rpc = [s \in Sessions |-> IF s = 1 THEN "select" ELSE "none"]
  /\ rapdu = [s \in Sessions |-> NoApdu]
  /\ rout = [s \in Sessions |-> <<>>]
  /\ dpc = [s \in Sessions |-> IF s = 1 THEN "run" ELSE "none"]
  /\ dapdu = [s \in Sessions |-> NoApdu]
  /\ app = [t \in Threads |-> IdleApp]
  /\ wire = [s \in Sessions |->
              IF s = 1 THEN <<buildFrame(UFrameFunctionStartDTA)>> ELSE <<>>]
  /\ nrecv = 1
  /\ rxI = [s \in Sessions |-> 0]
  /\ rxU = [s \in Sessions |->
             IF s = 1 THEN <<UFrameFunctionStartDTC[1]>> ELSE <<>>]
  /\ subs = {}
  /\ nsub = 0
  /\ handled = <<>>

\* the steps of the reader, the writer and the dispatcher of a session
NextLink ==
  \/ \E s \in Sessions : WriterWrite(s)
  \/ \E s \in Sessions : ReaderSelect(s)
  \/ \E s \in Sessions : \E b \in env.starts, f \in env.peer : ReaderRead(s, b, f)
  \/ \E s \in Sessions : ReaderSFrame(s)
  \/ \E s \in Sessions : ReaderSFrameSend(s)
  \/ \E s \in Sessions : ReaderIncRsn(s)
  \/ \E s \in Sessions : ReaderIncRsnChk(s)
  \/ \E s \in Sessions : ReaderTestFC(s)
  \/ \E s \in Sessions, d \in Sessions : DataChanHandoff(s, d)
  \/ \E d \in Sessions : DispatcherHandle(d)

SpecLink == InitLink /\ [][NextLink]_vars

\* the steps the reader of session s takes between two socket reads
ReaderLocal(s) ==
  \/ ReaderSelect(s)
  \/ ReaderSFrame(s)
  \/ ReaderSFrameSend(s)
  \/ ReaderIncRsn(s)
  \/ ReaderIncRsnChk(s)
  \/ ReaderTestFC(s)

\* the Go scheduler runs every goroutine that can take a step; the peer
\* need not send anything
LinkFairness ==
  \A s \in Sessions :
    /\ WF_vars(WriterWrite(s))
    /\ WF_vars(ReaderLocal(s))
    /\ WF_vars(\E d \in Sessions : DataChanHandoff(s, d))
    /\ WF_vars(DispatcherHandle(s))

\* the started session of EnvTest, with the scheduling of its goroutines
InitTest == InitLink /\ env = EnvTest

SpecTestFair == InitTest /\ [][NextLink]_vars /\ LinkFairness

\* ------------------------------------------------------------ codec functions
\* the two octets read without the conversion to int16
parseLittleEndianInt16Unsigned(x) == parseLittleEndianUint16(x)

\* parseLittleEndianInt16: the uint16 of the two octets converted to int16
parseLittleEndianInt16(x) ==
  LET u == parseLittleEndianUint16(x) IN IF u >= Wrap15 THEN u - Uint16 ELSE u

\* the header part of ASDU.Parse: the six parse calls before the objects
ASDUParseHeader(data) ==
  [typeID |-> data[1], sq |-> parseSQ(data[2]), nObjs |-> parseNOO(data[2]),
   t |-> parseT(data[3]), pn |-> parsePN(data[3]), cot |-> parseCOT(data[3]),
   org |-> data[4], coa |-> parseCOA(Slice(data, 4, AsduHeaderLen))]

\* asdu.ios as ASDU.parseInformationObjects leaves it after a parse without
\* fault: for SQ=1 the one object is never appended; for SQ=0 one object per
\* address, whose element has no Raw octets (the parser fills ie.data only)
ParsedIos(sq, nObjs, body) ==
  IF sq THEN <<>>
  ELSE LET size == Len(body) \div nObjs IN
    [i \in 1..nObjs |->
       [ioa |-> parseIOA(Slice(body, (i - 1) * size, (i - 1) * size + IOALength)),
        raw |-> <<>>]]

\* the loop of ASDU.Data over asdu.ios
RECURSIVE InformationObjectsData(_)
InformationObjectsData(ios) ==
  IF ios = <<>> THEN <<>>
  ELSE InformationObjectData(Head(ios).ioa, Head(ios).raw)
         \o InformationObjectsData(Tail(ios))

\* ASDU.Data of a parsed ASDU a whose objects were parsed from body
ParsedASDUData(a, body) ==
  <<a.typeID, AsduByte2(a.sq, a.nObjs), AsduByte3(a.t, a.pn, a.cot), a.org>>
    \o serializeLittleEndianUint16(a.coa)
    \o InformationObjectsData(ParsedIos(a.sq, a.nObjs, body))

\* the sequence numbers, the octets and the frames the functions are applied to
SNValues == {0, 1, 127, 128, 255, 256, 32767}
Int16Octets == {0, 1, 127, 128, 255}
IOAOctets == {0, 4, 17, 255}
HeaderTypes == {MSpNa1, CScNa1, CIcNa1}
HeaderOctets2 == {0, 1, 2, 127, 128, 129, 255}
HeaderOctets3 == {3, 20, 63, 64, 67, 128, 131, 192, 255}
HeaderOrgs == {0, 255}
HeaderCoaOctets == {0, 1, 255}
ApduSNValues == {0, 1, 256}
ApduOctets2 == {0, 1, 2, 129, 130}
ApduCots == {CotSpont, CotInrogen}
ElementLens == {8}
ElementCaps == {8, 9, 20}
SplitFirsts == {1, 2}
SplitChunks == {1, 3, 16}
SplitFrames == {buildFrame(UFrameFunctionStartDTC), buildFrame(PeerMSpSpont)}
FlagBits == {0, 1}
FlagNOOs == {0, 1, 2, 127}
FlagCots == {0, 3, 6, 63}
ObjectBodies == {<<>>, <<1, 0, 0, 1>>, <<1, 0, 0, 1, 5, 0, 0, 0>>,
                 <<7, 0, 0, 1, 0>>, <<7, 0, 0>>}

CodecInputs ==
  [kind : {"sn"}, in : SNValues \X SNValues]
    \cup [kind : {"int16"}, in : Int16Octets \X Int16Octets]
    \cup [kind : {"ioa"}, in : IOAOctets \X IOAOctets \X IOAOctets \X IOAOctets]
    \cup [kind : {"header"},
          in : HeaderTypes \X HeaderOctets2 \X HeaderOctets3 \X HeaderOrgs
                 \X HeaderCoaOctets \X HeaderCoaOctets]
    \cup [kind : {"element"}, in : ElementLens \X ElementCaps]
    \cup [kind : {"split"},
          in : {<<first, chunk>> \o frame :
                  first \in SplitFirsts, chunk \in SplitChunks,
                  frame \in SplitFrames}]
    \cup [kind : {"flags"},
          in : FlagBits \X FlagNOOs \X FlagBits \X FlagBits \X FlagCots]
    \cup [kind : {"apdu"},
          in : {IFrameData(s, r) \o <<MSpNa1, b2, cot, 0, 1, 0>> \o body :
                  s \in ApduSNValues, r \in ApduSNValues, b2 \in ApduOctets2,
                  cot \in ApduCots, body \in ObjectBodies}]

\* a client that does nothing but apply one codec function to one input
InitCodec ==
  /\ \E i \in CodecInputs :
       codec = [fn |-> "none", kind |-> i.kind, in |-> i.in, out |-> <<>>]
  /\ env = EnvLife
  /\ sock = [s \in Sessions |-> "none"]
  /\ conn = 0
  /\ ssn = 0
  /\ rsn = 0
  /\ sendChan = <<>>
  /\ cancelled = [s \in Sessions |-> FALSE]
  /\ mpc = "idle"
  /\ connectRet = "none"
  /\ wpc = [s \in Sessions |-> "none"]
  /\ rpc = [s \in Sessions |-> "none"]
  /\ rapdu = [s \in Sessions |-> NoApdu]
  /\ rout = [s \in Sessions |-> <<>>]
  /\ dpc = [s \in Sessions |-> "none"]
  /\ dapdu = [s \in Sessions |-> NoApdu]
  /\ app = [t \in Threads |-> IdleApp]
  /\ wire = [s \in Sessions |-> <<>>]
  /\ nrecv = 0
  /\ rxI = [s \in Sessions |-> 0]
  /\ rxU = [s \in Sessions |-> <<>>]
  /\ subs = {}
  /\ nsub = 0
  /\ handled = <<>>

\* the variables of the client, which no codec function touches
clientVars == <<env, sock, conn, ssn, rsn, sendChan, cancelled, mpc, connectRet,
                wpc, rpc, rapdu, rout, dpc, dapdu, app, wire, nrecv, rxI, rxU,
                subs, nsub, handled>>

\* IFrame.Data, then APCI.Parse on the four octets
IFrameRoundTrip ==
  /\ codec.fn = "none"
  /\ codec.kind = "sn"
  /\ LET data == IFrameData(codec.in[1], codec.in[2]) IN
       codec' = [codec EXCEPT !.fn = "iframe",
                   !.out = [data |-> data, frame |-> APCIParse(data)]]
  /\ UNCHANGED clientVars

\* SFrame.Data, then APCI.Parse on the four octets
SFrameRoundTrip ==
  /\ codec.fn = "none"
  /\ codec.kind = "sn"
  /\ LET data == SFrameData(codec.in[2]) IN
       codec' = [codec EXCEPT !.fn = "sframe",
                   !.out = [data |-> data, frame |-> APCIParse(data)]]
  /\ UNCHANGED clientVars

\* parseLittleEndianInt16 on two octets
Int16Parse ==
  /\ codec.fn = "none"
  /\ codec.kind = "int16"
  /\ codec' = [codec EXCEPT !.fn = "int16",
                 !.out = parseLittleEndianInt16(codec.in)]
  /\ UNCHANGED clientVars

\* parseIOA on the first three octets of a buffer of four, then serializeIOA;
\* buf is the buffer after the calls, which write to fresh slices only
IOARoundTrip ==
  /\ codec.fn = "none"
  /\ codec.kind = "ioa"
  /\ LET ioa == parseIOA(Slice(codec.in, 0, IOALength)) IN
       codec' = [codec EXCEPT !.fn = "ioa",
                   !.out = [ioa |-> ioa, data |-> serializeIOA(ioa),
                            buf |-> codec.in]]
  /\ UNCHANGED clientVars

\* the header part of ASDU.Parse on six octets
HeaderParse ==
  /\ codec.fn = "none"
  /\ codec.kind = "header"
  /\ codec' = [codec EXCEPT !.fn = "header", !.out = ASDUParseHeader(codec.in)]
  /\ UNCHANGED clientVars

\* APDU.Parse on the octets of an I-frame, then frame.Data() and ASDU.Data()
\* of the result; a parse that panics or fails leaves nothing to serialize
ApduRoundTrip ==
  /\ codec.fn = "none"
  /\ codec.kind = "apdu"
  /\ LET apdu == APDUParse(codec.in)
         body == Slice(codec.in, ApduHeaderLen + AsduHeaderLen, Len(codec.in))
     IN codec' = [codec EXCEPT !.fn = "apdu",
                    !.out = [apdu |-> apdu,
                             data |-> IF apdu.err # "nil" THEN <<>>
                                      ELSE IFrameData(apdu.frame.SendSN,
                                                      apdu.frame.RecvSN)
                                             \o ParsedASDUData(apdu.asdu, body)]]
  /\ UNCHANGED clientVars

\* the getters of case MMeTc1 in order, by the octets each advances ie.offset:
\* getIEEESTD754, getQDS, getIEEESTD754
MMeTc1Getters == <<4, 1, 4>>

\* the getters g run on ie.data of len octets whose slice has capacity cap:
\* getQDS indexes ie.data[ie.offset], which faults at len; getIEEESTD754
\* slices ie.data[ie.offset : ie.offset+4], which faults beyond cap only
RECURSIVE runGetters(_, _, _, _)
runGetters(g, ie, len, cap) ==
  IF g = <<>> \/ ie.fault THEN ie
  ELSE LET w == Head(g)
           bad == IF w = 1 THEN ie.offset >= len ELSE ie.offset + w > cap IN
    runGetters(Tail(g),
               IF bad THEN [ie EXCEPT !.fault = TRUE]
               ELSE [ie EXCEPT !.offset = @ + w],
               len, cap)

\* ASDU.parseInformationElement, case MMeTc1, on an element of codec.in[1]
\* octets cut from a buffer that holds codec.in[2] octets from its start on
ElementDecode ==
  /\ codec.fn = "none"
  /\ codec.kind = "element"
  /\ codec' = [codec EXCEPT !.fn = "element",
                 !.out = runGetters(MMeTc1Getters,
                                    [offset |-> 0, fault |-> FALSE],
                                    codec.in[1], codec.in[2])]
  /\ UNCHANGED clientVars

\* c.conn.Read into a buffer of size octets when the transport hands over at
\* most chunk octets of the stream at a time: the number of octets read
connRead(stream, size, chunk) ==
  LET m == IF size < chunk THEN size ELSE chunk IN
  IF Len(stream) < m THEN Len(stream) ELSE m

\* Client.readApduBody, the reads: the first read into apduData, then the
\* loop that reads the missing octets; got are the n octets read so far
RECURSIVE readApduBody(_, _, _, _)
readApduBody(stream, apduLen, got, chunk) ==
  IF Len(got) >= apduLen \/ stream = <<>> THEN got
  ELSE LET m == connRead(stream, apduLen - Len(got), chunk) IN
    readApduBody(SubSeq(stream, m + 1, Len(stream)), apduLen,
                 got \o SubSeq(stream, 1, m), chunk)

\* Client.readFromSocket on a stream whose first read returns at most first
\* octets and whose later reads return at most chunk octets each
readFromSocket(stream, first, chunk) ==
  LET n == connRead(stream, 2, first)
      herr == readApduHeader(SubSeq(stream, 1, n)) IN
  IF herr # "nil" THEN [NoApdu EXCEPT !.err = herr]
  ELSE Arrived(APDUParse(readApduBody(SubSeq(stream, 3, Len(stream)),
                                      stream[2], <<>>, chunk)), 0, 0)

\* readFromSocket on one frame that the transport delivers in pieces
SplitRead ==
  /\ codec.fn = "none"
  /\ codec.kind = "split"
  /\ codec' = [codec EXCEPT !.fn = "split",
                 !.out = readFromSocket(SubSeq(codec.in, 3, Len(codec.in)),
                                        codec.in[1], codec.in[2])]
  /\ UNCHANGED clientVars

\* ASDU.Data of an ASDU with the given SQ, NOO, T, PN and COT
AsduDataFlags ==
  /\ codec.fn = "none"
  /\ codec.kind = "flags"
  /\ codec' = [codec EXCEPT !.fn = "flags",
                 !.out = ASDUData([typeID |-> MSpNa1, sq |-> codec.in[1] = 1,
                                   nObjs |-> codec.in[2], t |-> codec.in[3] = 1,
                                   pn |-> codec.in[4] = 1, cot |-> codec.in[5],
                                   org |-> ClientOrg, coa |-> ClientCoa,
                                   ioa |-> 1, raw |-> <<1>>])]
  /\ UNCHANGED clientVars

NextCodec ==
  \/ IFrameRoundTrip
  \/ SFrameRoundTrip
  \/ Int16Parse
  \/ IOARoundTrip
  \/ HeaderParse
  \/ ApduRoundTrip
  \/ AsduDataFlags
  \/ SplitRead
  \/ ElementDecode

SpecCodec == InitCodec /\ [][NextCodec]_vars

\* -------------------------------------------------------------- properties
\* an octet sequence written to the socket is an I-frame
IsIFrame(frame) == frame[3] % 2 = 0

\* N(S) of an I-frame as the peer decodes it from the octets on the wire
WireNS(frame) == (frame[3] + 256 * frame[4]) \div 2

\* the I-frames written on the connection of session s, in order
IFramesOn(s) == SelectSeq(wire[s], IsIFrame)

\* the type identification a command call sends
CmdTypeID(op) == IF op = "SC" THEN 45 ELSE 46

\* the select and the execute octet the protocol prescribes for a command
CmdOctets(op, close) ==
  CASE op = "SC" /\ close -> <<129, 1>>
    [] op = "SC" /\ ~close -> <<128, 0>>
    [] op = "DC" /\ close -> <<130, 2>>
    [] OTHER -> <<129, 1>>

\* C1: when Connect has returned nil, a STARTDT con has been received on the
\* connection: no other received frame lets Connect return
C1_ConnectOnlyAfterStartDTC ==
  connectRet = "nil" =>
    \E i \in 1..Len(rxU[conn]) : rxU[conn][i] = UFrameFunctionStartDTC[1]

\* C2: from the moment Connect has dialled and reset the counters until the
\* first frame of the new session is sent or received, N(S) = 0 and N(R) = 0
C2_CountersZeroAfterConnect ==
  (mpc = "onConnect" /\ wire[conn] = <<>> /\ rxI[conn] = 0 /\ rxU[conn] = <<>>)
    => (ssn = 0 /\ rsn = 0)

C4_CommandFrames ==
  \A t \in Threads :
    app[t].op \in CmdOps =>
      /\ Len(app[t].frames) <= 2
      /\ \A k \in 1..Len(app[t].frames) :
           LET f == app[t].frames[k] IN
             /\ Len(f) = 16
             /\ f[7] = CmdTypeID(app[t].op)
             /\ f[8] = 1
             /\ f[9] = 6
             /\ f[13] + 256 * f[14] + 65536 * f[15] = app[t].ioa
             /\ f[16] = CmdOctets(app[t].op, app[t].close)[k]

\* a closing command on a three-octet IOA has sent both of its frames
C4_Witness ==
  \E t \in Threads :
    /\ app[t].op \in CmdOps
    /\ app[t].close
    /\ app[t].ioa = 66051
    /\ Len(app[t].frames) = 2

\* C5: when the response to the select step is an activation termination, the
\* call has returned the termination error and sent the select frame only,
\* and, no other goroutine submitting, N(S) is one more than when it began
C5_SelectTermination ==
  \A t \in Threads :
    (/\ app[t].op \in CmdOps
     /\ app[t].trace = <<"select", "rsp">>
     /\ app[t].rspFrom[2] = CotActTerm)
      => /\ app[t].pc = "idle"
         /\ app[t].ret \in {"errSingleCmdTerm", "errDoubleCmdTerm"}
         /\ Len(app[t].frames) = 1
         /\ (subs = {t} => ssn = app[t].ssn0 + 1)

\* a command call has returned on a termination of its select step
C5_Witness ==
  \E t \in Threads :
    /\ app[t].op \in CmdOps
    /\ app[t].trace = <<"select", "rsp">>
    /\ app[t].rspFrom[2] = CotActTerm
    /\ app[t].pc = "idle"
    /\ subs = {t}

\* C6: the error returned on an activation termination matches the command:
\* IsErrDoubleCmdTerm for a CDcNa1 termination taken by SendDoubleCommand,
\* IsErrSingleCmdTerm for a CScNa1 termination taken by SendSingleCommand
C6_TerminationErrorMatches ==
  \A t \in Threads :
    /\ (app[t].op = "DC" /\ app[t].rspFrom = <<CDcNa1, CotActTerm>>)
         => IsErrDoubleCmdTerm(app[t].ret)
    /\ (app[t].op = "SC" /\ app[t].rspFrom = <<CScNa1, CotActTerm>>)
         => IsErrSingleCmdTerm(app[t].ret)

\* C7: at most one command call awaits a command response at any time: no
\* call has its select frame out while another call still awaits a response
C7_OneExchangeOutstanding ==
  Cardinality({t \in Threads : app[t].pc = "await"}) <= 1

\* C8: with at most one submitting goroutine in the session, each I-frame on
\* the wire carries N(S) one more, modulo 2^15, than the I-frame before it
C8_SingleSubmitterConsecutive ==
  Cardinality(subs) <= 1 =>
    LET fs == IFramesOn(conn) IN
      \A i \in 1..(Len(fs) - 1) :
        WireNS(fs[i + 1]) = (WireNS(fs[i]) + 1) % Wrap15

\* C9: whenever no increment is in progress, both counters are below 2^15
C9_CountersBelowWrap ==
  (/\ \A s \in Sessions : rpc[s] # "incRsnChk"
   /\ \A t \in Threads : app[t].pc # "incChk")
    => (ssn < Wrap15 /\ rsn < Wrap15)

\* C10: the I-frames written on a connection carry strictly increasing N(S),
\* so no two of them carry the same N(S)
C10_DistinctIncreasingNS ==
  \A s \in Sessions :
    LET fs == IFramesOn(s) IN
      \A i \in 1..Len(fs), j \in 1..Len(fs) :
        i < j => WireNS(fs[i]) < WireNS(fs[j])

\* C13: Close signals the cancellation of a session only after the reader of
\* that session has read a STOPDT con; no other frame completes the wait
C13_CancelOnlyAfterStopDTC ==
  (conn > 0 /\ mpc = "closeCancel") =>
    \E i \in 1..Len(rxU[conn]) : rxU[conn][i] = UFrameFunctionStopDTC[1]

\* C16: once Close has cancelled the latest session, Close is not again
\* sending a frame or waiting for a frame of that session
C16_SecondCloseIsNoOp ==
  (conn > 0 /\ cancelled[conn]) => mpc \notin {"closeWait", "closeCancel"}

\* the steps the goroutines of session s can take without a frame of the peer
SessionStep(s) ==
  \/ WriterExit(s)
  \/ WriterWrite(s)
  \/ WriterWriteFails(s)
  \/ ReaderSelect(s)
  \/ ReaderReadFails(s)
  \/ ReaderSFrame(s)
  \/ ReaderSFrameSend(s)
  \/ ReaderIncRsn(s)
  \/ ReaderIncRsnChk(s)
  \/ ReaderTestFC(s)
  \/ RecvChanHandoff(s)
  \/ DispatcherExit(s)
  \/ DispatcherHandle(s)
  \/ \E d \in Sessions : DataChanHandoff(s, d)
  \/ \E t \in Threads : CmdRspHandoff(s, t)

\* C14: after Close has cancelled a session its reader, writer and dispatcher
\* exit without any further frame of the peer: when none of them can take a
\* step of its own, all three have exited
C14_AllExitAfterCancel ==
  \A s \in Sessions :
    (cancelled[s] /\ ~Crashed /\ ~ENABLED SessionStep(s)) =>
      (wpc[s] = "exit" /\ rpc[s] = "exit" /\ dpc[s] = "exit")

\* C15: when Close has returned, the socket of the session has been closed
C15_SocketClosedAfterClose ==
  (conn > 0 /\ mpc = "closed") => sock[conn] = "closed"

\* C17: an error of a socket read does not terminate the process
C17_TransportErrorNoPanic ==
  \A s \in Sessions : rapdu[s].err = "transport" => rpc[s] # "panic"

\* C18: an APDU that fails to decode is discarded and the reader goes on
C18_DecodeErrorDiscarded ==
  \A s \in Sessions : rapdu[s].err = "error" => rpc[s] # "panic"

\* N(R) of an I-frame or S-frame written to the socket
WireNR(frame) == (frame[5] + 256 * frame[6]) \div 2

\* the highest N(R) the client has emitted on connection s, written or queued
AckedNR(s) ==
  LET out == wire[s] \o (IF s = conn THEN sendChan ELSE <<>>)
      nrs == {WireNR(out[i]) : i \in {j \in 1..Len(out) : out[j][3] % 4 # 3}}
  IN IF nrs = {} THEN 0 ELSE CHOOSE m \in nrs : \A n \in nrs : n <= m

\* C11: the received I-frames of a session that the client has not
\* acknowledged never exceed the window k
C11_UnackedWithinWindow ==
  \A s \in Sessions : rxI[s] - AckedNR(s) <= WindowK

\* C19: each APDU handed to handleData goes to the handler of its type
\* identification, and the handlers of the APDUs one reader has read are
\* called in the order in which the APDUs arrived
C19_DispatchByTypeInOrder ==
  /\ \A i \in 1..Len(handled) :
       handled[i].handler = HandlerFor(handled[i].typeID)
  /\ \A i, j \in 1..Len(handled) :
       (i < j /\ handled[i].s = handled[j].s) => handled[i].n < handled[j].n

\* the call of a handler that ended last
LastHandled == handled[Len(handled)]

\* C20: after a handler has returned an error or panicked the dispatcher of
\* a session that is not cancelled is still running: it waits for the next
\* APDU or handles one, and the process is alive
C20_HandlerFailureContained ==
  (handled # <<>> /\ LastHandled.out \in {"error", "panic"}) =>
    /\ ~Crashed
    /\ \A d \in Sessions :
         (dpc[d] # "none" /\ ~cancelled[d]) => dpc[d] \in {"run", "handle"}

\* after a handler has panicked and another has returned an error, each on
\* an APDU of its own, a third APDU has been handled
C20_Witness ==
  /\ Len(handled) = 3
  /\ handled[1].out = "panic"
  /\ handled[2].out = "error"
  /\ handled[1].n < handled[2].n /\ handled[2].n < handled[3].n
  /\ dpc[1] = "run"

\* how often the octet x occurs in the sequence q
Count(q, x) == Cardinality({i \in 1..Len(q) : q[i] = x})

\* the TESTFR act the readers have read, and the TESTFR con written and queued
TestFARead ==
  Count(rxU[1], UFrameFunctionTestFA[1]) + Count(rxU[2], UFrameFunctionTestFA[1])
TestFCWritten ==
  Count(wire[1], buildFrame(UFrameFunctionTestFC))
    + Count(wire[2], buildFrame(UFrameFunctionTestFC))
TestFCQueued == Count(sendChan, buildFrame(UFrameFunctionTestFC))

\* C12: every TESTFR act read on a live session is answered by a TESTFR con
\* that is enqueued before the reader reads another frame, and each answer
\* is eventually written to the socket
C12_TestFrAnswered ==
  /\ [](TestFARead = TestFCWritten + TestFCQueued
                      + Cardinality({s \in Sessions : rpc[s] = "testfc"}))
  /\ \A n \in 1..(MaxRecv + 2) : (TestFARead >= n) ~> (TestFCWritten >= n)

\* a TESTFR act was answered on the wire and a later frame has been read
C12_Witness ==
  /\ TestFCWritten = 1
  /\ rxU[1] = <<UFrameFunctionStartDTC[1], UFrameFunctionTestFA[1]>>
  /\ rxI[1] = 1
  /\ rapdu[1].frame.ftype = "I"
  /\ rapdu[1].n = 3

\* C21: for sequence numbers below 2^15, IFrame.Data followed by APCI.Parse
\* gives back an I-frame with the same N(S) and the same N(R)
C21_IFrameRoundTrip ==
  codec.fn = "iframe" =>
    /\ codec.out.frame.ftype = "I"
    /\ codec.out.frame.SendSN = codec.in[1]
    /\ codec.out.frame.RecvSN = codec.in[2]

\* C30: for N(R) = r below 2^15, SFrame.Data is 0x01, 0x00, (r<<1)&0xFE,
\* (r>>7)&0xFF, and parsing these octets gives an S-frame with N(R) = r
C30_SFrameOctets ==
  codec.fn = "sframe" =>
    /\ codec.out.data = <<1, 0, (2 * codec.in[2]) % 256,
                          (codec.in[2] \div 128) % 256>>
    /\ codec.out.frame.ftype = "S"
    /\ codec.out.frame.RecvSN = codec.in[2]

\* C25: parsing a six-octet ASDU header gives typeID = octet 1, SQ = bit 7 and
\* NOO = the low 7 bits of octet 2, T = bit 7, PN = bit 6 and COT = the low 6
\* bits of octet 3, ORG = octet 4 and COA = octet 5 + 256 * octet 6
C25_HeaderFields ==
  codec.fn = "header" =>
    /\ codec.out.typeID = codec.in[1]
    /\ codec.out.sq = (codec.in[2] >= 128)
    /\ codec.out.nObjs = codec.in[2] % 128
    /\ codec.out.t = (codec.in[3] >= 128)
    /\ codec.out.pn = ((codec.in[3] \div 64) % 2 = 1)
    /\ codec.out.cot = codec.in[3] % 64
    /\ codec.out.org = codec.in[4]
    /\ codec.out.coa = codec.in[5] + 256 * codec.in[6]

\* a header with SQ, T and PN set and a common address of two non-zero octets
\* has been parsed
C25_Witness ==
  /\ codec.fn = "header"
  /\ codec.in[2] = 129
  /\ codec.in[3] = 255
  /\ codec.in[5] = 1
  /\ codec.in[6] = 255

\* C26: parseIOA gives b0 + 256*b1 + 65536*b2 of the first three octets
\* whatever the fourth octet of the buffer is, leaves the buffer as it was, and
\* serializeIOA of the result gives the same three octets back
C26_IOARoundTrip ==
  codec.fn = "ioa" =>
    /\ codec.out.ioa = codec.in[1] + 256 * codec.in[2] + 65536 * codec.in[3]
    /\ codec.out.data = <<codec.in[1], codec.in[2], codec.in[3]>>
    /\ codec.out.buf = codec.in

\* the address 00 04 00 has been parsed out of a buffer whose fourth octet is
\* not zero
C26_Witness ==
  /\ codec.fn = "ioa"
  /\ codec.in = <<0, 4, 0, 255>>
  /\ codec.out.ioa = 1024

\* C27: parseLittleEndianInt16 of two octets is the two's-complement reading
\* of b0 + 256*b1: the one value of -2^15 .. 2^15 - 1 congruent to it mod 2^16
C27_Int16TwosComplement ==
  codec.fn = "int16" =>
    /\ codec.out \in -32768..32767
    /\ (codec.out - (codec.in[1] + 256 * codec.in[2])) % 65536 = 0

\* two octets with the sign bit set have been parsed
C27_Witness ==
  /\ codec.fn = "int16"
  /\ codec.in[2] >= 128
  /\ codec.out < 0

\* the SQ bit, the number of objects and the object octets of the I-frame the
\* codec was given
InSQ == codec.in[ApduHeaderLen + 2] >= 128
InNOO == codec.in[ApduHeaderLen + 2] % 128
InBody == Slice(codec.in, ApduHeaderLen + AsduHeaderLen, Len(codec.in))

\* the object octets have the length the number of single-point objects asks
\* for: an address and one octet each, or one address and one octet each
InWellSized ==
  Len(InBody) = IF InSQ THEN IOALength + InNOO ELSE InNOO * (IOALength + 1)

\* C22: parsing the octets of a valid I-frame (control field and an ASDU of a
\* supported type with at least one object) and serializing the result with
\* frame.Data() and ASDU.Data() gives the same octets
C22_ApduRoundTrip ==
  (codec.fn = "apdu" /\ InWellSized /\ InNOO >= 1) =>
    /\ codec.out.apdu.err = "nil"
    /\ codec.out.data = codec.in

\* C23: parsing an ASDU with NOO = n gives exactly n decoded elements; with
\* SQ=0 the i-th address is the IOA at the start of the i-th object, with SQ=1
\* the addresses are base .. base+n-1 for the one IOA at the start of the body
C23_ElementsAndAddresses ==
  (codec.fn = "apdu" /\ InWellSized) =>
    LET addrs == codec.out.apdu.asdu.flags.addrs
        at(o) == InBody[o + 1] + 256 * InBody[o + 2] + 65536 * InBody[o + 3]
    IN /\ codec.out.apdu.err = "nil"
       /\ Len(addrs) = InNOO
       /\ \A i \in 1..InNOO :
            addrs[i] = IF InSQ THEN at(0) + i - 1
                       ELSE at((i - 1) * (IOALength + 1))

\* C24: every frame in sendChan begins with 0x68 and a length octet that is the
\* number of octets after it: 4 for an S- or U-frame, 4 plus the octets of the
\* ASDU for an I-frame, and never more than 253
C24_FrameLengthOctet ==
  \A i \in 1..Len(sendChan) :
    LET frame == sendChan[i] IN
      /\ frame[1] = 104
      /\ frame[2] = Len(frame) - 2
      /\ frame[2] <= 253
      /\ IF IsIFrame(frame) THEN frame[2] >= 4 + AsduHeaderLen
                            ELSE frame[2] = 4

\* an I-frame is waiting in sendChan
C24_Witness == Len(sendChan) > 0 /\ IsIFrame(sendChan[1])

\* C29: the S-frame the reader builds because the I-frame it has just read is
\* flagged sendSFrame carries N(R) = the number of I-frames read on the
\* session so far, that frame included, modulo 2^15
C29_SFrameAcksTrigger ==
  \A s \in Sessions :
    rpc[s] = "sframeSend" => WireNR(rout[s]) = rxI[s] % Wrap15

\* C28: the command response a SendSingleCommand / SendDoubleCommand call has
\* consumed for its current step arrived after the call put the request of
\* that step in sendChan (sentAt counts the frames the peer had delivered by
\* then, rspAt is the arrival number of the response)
C28_ResponseAfterRequest ==
  \A t \in Threads : app[t].rspAt # 0 => app[t].rspAt > app[t].sentAt

\* C31: ASDU.Data emits octet 2 as (SQ<<7) OR NOO and octet 3 as (T<<7) OR
\* (PN<<6) OR COT, for SQ, T, PN in 0..1, NOO in 0..127 and COT in 0..63
C31_FlagOctets ==
  codec.fn = "flags" =>
    /\ codec.out[2] = 128 * codec.in[1] + codec.in[2]
    /\ codec.out[3] = 128 * codec.in[3] + 64 * codec.in[4] + codec.in[5]

\* the object octets of the I-frame the codec was given do not divide by the
\* number of objects: NOO is 0, or the length (less the one address, for SQ=1)
\* is not a multiple of NOO
InInexact ==
  \/ InNOO = 0
  \/ IF InSQ THEN Len(InBody) < IOALength
                    \/ (Len(InBody) - IOALength) % InNOO # 0
             ELSE Len(InBody) % InNOO # 0

\* C32: ASDU.Parse returns an error, and does not fault, when the length of
\* the body is not an exact multiple of NOO (SQ=0) or the length less 3 is not
\* (SQ=1), NOO = 0 included
C32_InexactRejected ==
  (codec.fn = "apdu" /\ InInexact) => codec.out.apdu.err = "error"

\* C33: a command call that has taken a negative activation confirmation
\* (COT = ActCon with P/N set) as the response of its step neither goes on to
\* the execute step nor returns nil
C33_NegativeConfirmationFails ==
  \A t \in Threads :
    (/\ app[t].rspAt # 0
     /\ app[t].rspPN
     /\ app[t].rspFrom = <<CmdTypeID(app[t].op), CotActCon>>)
      => app[t].pc # "apci" /\ app[t].ret # "nil"

\* C34: the step that counts a received I-frame advances N(R) by one (modulo
\* 2^15 with the wrap test that follows it) and leaves N(S); the step that
\* counts a sent I-frame advances N(S) by one and leaves N(R); reading an S- or
\* U-frame and putting an S- or U-frame in sendChan change neither counter
C34_FrameEffects ==
  [][/\ \A s \in Sessions :
          /\ (rpc[s] = "incRsn" /\ rpc'[s] = "incRsnChk")
               => (rsn' = rsn + 1 /\ ssn' = ssn)
          /\ (rpc[s] = "incRsnChk" /\ rpc'[s] # "incRsnChk")
               => (rsn' = rsn % Wrap15 /\ ssn' = ssn)
          /\ (rpc[s] = "read" /\ rpc'[s] # "read"
                /\ rapdu'[s].err = "nil" /\ rapdu'[s].frame.ftype # "I")
               => (rsn' = rsn /\ ssn' = ssn)
          /\ (rpc[s] \in {"sframeSend", "testfc"} /\ rpc'[s] # rpc[s])
               => (rsn' = rsn /\ ssn' = ssn)
     /\ \A t \in Threads :
          /\ (app[t].pc = "incStore" /\ app'[t].pc = "incChk")
               => (ssn' = ssn + 1 /\ rsn' = rsn)
          /\ (app[t].pc = "send" /\ app'[t].pc # "send" /\ app[t].op = "TF")
               => (rsn' = rsn /\ ssn' = ssn)]_vars

\* C40: IsConnected returns true exactly while a session is established: not
\* before the first successful Connect, not while Connect is still waiting
\* for the STARTDT con, and not after Close
C40_IsConnectedReflectsSession == IsConnected <=> mpc = "started"

\* C38: the TESTFR con frames the client has put in sendChan, written or
\* still queued, are never more than the TESTFR act frames it has read
C38_TestFCOnlyAsReply == TestFCWritten + TestFCQueued <= TestFARead

\* C39: the step of SendTestFrame that puts its frame in sendChan appends
\* exactly one frame, an S-frame whose N(R) as the peer decodes it is the c.rsn
\* the call has read, and changes neither c.ssn nor c.rsn
C39_SendTestFrameEffect ==
  [][\A t \in Threads :
       (app[t].op = "TF" /\ app[t].pc = "send" /\ app'[t].pc # "send") =>
         /\ sendChan' = Append(sendChan, app[t].frame)
         /\ Len(app[t].frame) = 6
         /\ app[t].frame[3] % 4 = 1
         /\ WireNR(app[t].frame) = app[t].RecvSN
         /\ ssn' = ssn /\ rsn' = rsn]_vars

\* C35: the APDU the reader produces from the octets of one frame is the same
\* however the transport splits them into reads: it is the APDU of the frame
\* delivered whole, header in one read of two octets and body in one read
C35_SplitIndependent ==
  codec.fn = "split" =>
    codec.out = readFromSocket(SubSeq(codec.in, 3, Len(codec.in)),
                               2, Len(codec.in))

\* C36: decoding an MMeTc1 element of eight octets (IEEE754, QDS, CP24Time2a)
\* ends without a fault with exactly the eight octets consumed, so that no
\* read goes past the region of the element
C36_MMeTc1EightOctets ==
  codec.fn = "element" => ~codec.out.fault /\ codec.out.offset = codec.in[1]

\* the application goroutine t is in a command call or may still make one
MayAwaitCmdRsp(t) ==
  \/ app[t].pc # "idle" /\ app[t].op \in CmdOps
  \/ \E c \in env.calls[t] : c[1] \in CmdOps

\* C37: the reader is never left in the hand-over of a command response to
\* cmdRspChan when no application goroutine is in a command call or will make
\* one: a response nobody waits for does not keep it from reading again
C37_ReaderNotBlockedForever ==
  \A s \in Sessions : rpc[s] = "cmdRsp" => \E t \in Threads : MayAwaitCmdRsp(t)

====
